---- MODULE Spec2Model ----
(***************************************************************************)
(* Model of the chunked-transcription pipeline of ml-service:              *)
(*   services/transcription.py   TranscriptionService.transcribe           *)
(*   services/audio_processor.py AudioProcessor                            *)
(*   ml_models/asr.py            ASRModel.transcribe                       *)
(*                                                                         *)
(* Conventions.                                                            *)
(*  - Durations are floats in the code; here they are integers counting    *)
(*    milliseconds, so 0.1 s is 100 and N seconds is N * 1000.             *)
(*  - A text is a sequence of Unicode code points (integers).              *)
(*  - A path is a record [kind, idx]; the temp directory is the set `disk` *)
(*    of the paths that exist.                                             *)
(*  - Every external call (probe, transcoder, file write, engine, unlink)  *)
(*    returns or raises; which one is a nondeterministic choice.           *)
(*  - processing_time_ms (wall clock) is not modelled.                     *)
(***************************************************************************)
EXTENDS Integers, Sequences, FiniteSets, TLC

VARIABLES
    pc,              \* position of the run inside transcribe()
    language,        \* the caller's language argument ("None" = not given)
    disk,            \* files that exist in settings.temp_dir
    disk0,           \* files that existed when transcribe() was entered
    duration,        \* transcription.py:71, in ms (-1 before it is measured)
    temp_files,      \* transcription.py:65
    converted_path,  \* transcription.py:66
    chunks,          \* transcription.py:67
    split_chunks,    \* audio_processor.py:149, the list local to split_audio
    total_samples,   \* audio_processor.py:159 (-1 before the load)
    ranges,          \* sample range <<start, end>> written to each chunk file
    texts,           \* transcription.py:103
    rec_i,           \* index of the chunk-recognition loop, transcription.py:104
    outcome,         \* "none" | "ok" | "error": what transcribe() ends with
    result,          \* the TranscriptionResult (valid when outcome = "ok")
    error,           \* the TranscriptionError (valid when outcome = "error")
    conv_tried,      \* history: conversion strategies attempted, in order
    split_calls,     \* history: number of calls of split_audio
    rec_calls,       \* history: paths passed to ASRModel.transcribe, in order
    rec_texts,       \* history: text returned by each recognition call
    cleanup_calls,   \* history: paths passed to cleanup_file, in order
    absent_calls,    \* history: cleanup_file calls that found the path absent
    unlink_failed,   \* history: paths whose unlink raised (and was swallowed)
    text_in,         \* input of the language heuristic (SpecLang)
    lang_out,        \* output of the language heuristic (SpecLang)
    swept,           \* cleanup_temp_directory has run during the run (SpecEnv)
    conv_failed,     \* history: conversion strategies that raised, in order
    is_loaded,       \* asr.py:32-35: the recognition model is loaded
    engine_log,      \* history: the load_model and unload_model calls made
    runs,            \* the files of two requests served side by side (SpecTwo)
    audio,           \* main.py:184: the upload, its filename and size
    saved_path,      \* main.py:243
    response         \* main.py:252-300: what the handler answers

vars == <<pc, language, disk, disk0, duration, temp_files, converted_path,
          chunks, split_chunks, total_samples, ranges, texts, rec_i, outcome,
          result, error, conv_tried, split_calls, rec_calls, rec_texts,
          cleanup_calls, absent_calls, unlink_failed, text_in, lang_out, swept,
          conv_failed, is_loaded, engine_log, runs, audio, saved_path, response>>

\* the service and the request around the run, which transcribe() never writes
outer == <<is_loaded, engine_log, runs, audio, saved_path, response>>

----------------------------------------------------------------------------
(* Configuration: config.py defaults.                                      *)

chunk_size_seconds == 60
sample_rate == 16000
max_audio_duration_seconds == 7200

(* Bounds of the model.                                                    *)
MaxFullChunks == 2      \* converted audio holds at most this many full chunks (+ a tail)
MaxRun == 7             \* longest run of one code point in a heuristic input

Ms(seconds) == seconds * 1000

(* Measured durations the probe may report, in ms.                         *)
Durations ==
    { 50, 99, 100,
      Ms(chunk_size_seconds), Ms(chunk_size_seconds) + 1,
      Ms(max_audio_duration_seconds), Ms(max_audio_duration_seconds) + 1,
      9000000 }

(* Sample counts the converted file may hold.                              *)
TotalSamplesSet ==
    { k * (chunk_size_seconds * sample_rate) + d :
        k \in 0..MaxFullChunks, d \in {0, 1, 5 * sample_rate} }

(* Language arguments: absent, empty form field, a code.                   *)
Languages == {"None", "", "fr"}

(* Code points: SPACE, LATIN SMALL A, CYRILLIC SMALL DE (alphabetic),      *)
(* CYRILLIC THOUSANDS SIGN U+0482 (in the Cyrillic block, not alphabetic). *)
SPACE == <<32>>
EngineTexts == { <<32>>, <<97, 32, 97>>, <<32, 1076, 32>> }

----------------------------------------------------------------------------
(* Paths.                                                                  *)

NoPath == [kind |-> "none", idx |-> 0]
audio_path == [kind |-> "upload", idx |-> 0]

\* audio_processor.py:101  input_path.with_suffix(".converted.wav")
output_path == [kind |-> "converted", idx |-> 0]

\* audio_processor.py:171  f"{audio_path.stem}_chunk_{i:04d}.wav"
chunk_path(i) == [kind |-> "chunk", idx |-> i]

----------------------------------------------------------------------------
(* Pure helpers.                                                           *)

RECURSIVE Count(_, _)
Count(s, x) ==
    IF s = <<>> THEN 0
    ELSE (IF Head(s) = x THEN 1 ELSE 0) + Count(Tail(s), x)

Range(s) == { s[k] : k \in 1..Len(s) }

\* str.isalpha() on the code points used here
isalpha(c) == c \in {97, 1076}

isspace(c) == c = 32

\* str.strip()
RECURSIVE lstrip(_)
lstrip(s) == IF s # <<>> /\ isspace(Head(s)) THEN lstrip(Tail(s)) ELSE s

RECURSIVE rstrip(_)
rstrip(s) ==
    IF s # <<>> /\ isspace(s[Len(s)]) THEN rstrip(SubSeq(s, 1, Len(s) - 1)) ELSE s

strip(s) == rstrip(lstrip(s))

\* " ".join(texts)
RECURSIVE join(_)
join(ts) ==
    IF ts = <<>> THEN <<>>
    ELSE IF Len(ts) = 1 THEN ts[1]
    ELSE ts[1] \o SPACE \o join(Tail(ts))

\* Mutation of append_text: empty texts are kept
append_text_keep_empty(ts, text) == Append(ts, text)

\* transcription.py:107-108   if text: texts.append(text)
append_text(ts, text) == IF text # <<>> THEN Append(ts, text) ELSE ts

\* transcription.py:165
RECURSIVE cyrillic_count(_)
cyrillic_count(text) ==
    IF text = <<>> THEN 0
    ELSE (IF 1024 <= Head(text) /\ Head(text) <= 1279 THEN 1 ELSE 0)
         + cyrillic_count(Tail(text))

\* transcription.py:166
RECURSIVE total_alpha(_)
total_alpha(text) ==
    IF text = <<>> THEN 0
    ELSE (IF isalpha(Head(text)) THEN 1 ELSE 0) + total_alpha(Tail(text))

\* Mutation of ratio_above: the threshold itself counts as Russian (>=)
ratio_at_least(count, total) == 10 * count >= 3 * total

\* transcription.py:171-174  cyrillic_count / total_alpha > 0.3, for total_alpha > 0.
\* The float quotient of two small integers compares with the float 0.3 as the
\* exact rationals do, so the test is 10 * count > 3 * total.
ratio_above(count, total) == 10 * count > 3 * total

\* Mutation of _detect_language: an empty text is taken for Russian
_detect_language_empty_ru(text) ==
    IF text = <<>> THEN "ru"
    ELSE IF total_alpha(text) = 0 THEN "en"
    ELSE IF ratio_above(cyrillic_count(text), total_alpha(text)) THEN "ru"
    ELSE "en"

\* transcription.py:151-177
_detect_language(text) ==
    IF text = <<>> THEN "en"
    ELSE IF total_alpha(text) = 0 THEN "en"
    ELSE IF ratio_above(cyrillic_count(text), total_alpha(text)) THEN "ru"
    ELSE "en"

\* Mutation of detected_language: the override is ignored
detected_language_heuristic_only(full_text, lang) == _detect_language(full_text)

\* transcription.py:122   _detect_language(full_text) if not language else language
detected_language(full_text, lang) ==
    IF lang \in {"None", ""} THEN _detect_language(full_text) ELSE lang

\* Mutation of gate_code: both bounds are rejected as well (>=, <=)
gate_code_inclusive(d) ==
    IF d >= Ms(max_audio_duration_seconds) THEN "AUDIO_TOO_LONG"
    ELSE IF d <= 100 THEN "AUDIO_TOO_SHORT"
    ELSE ""

\* transcription.py:75-85: the code the gate raises, or "" when it passes
gate_code(d) ==
    IF d > Ms(max_audio_duration_seconds) THEN "AUDIO_TOO_LONG"
    ELSE IF d < 100 THEN "AUDIO_TOO_SHORT"
    ELSE ""

\* Mutation of needs_chunking: a duration equal to the chunk size is chunked
needs_chunking_at_threshold(d) == d >= Ms(chunk_size_seconds)

\* Mutation of needs_chunking: every run is chunked
needs_chunking_always(d) == TRUE

\* transcription.py:92
needs_chunking(d) == d > Ms(chunk_size_seconds)

\* audio_processor.py:160
chunk_samples == chunk_size_seconds * sample_rate

\* Mutation of num_chunks: the quotient is rounded down, the tail is dropped
num_chunks_floor(total) == total \div chunk_samples

\* audio_processor.py:161   int(np.ceil(total_samples / chunk_samples))
num_chunks(total) == (total + chunk_samples - 1) \div chunk_samples

Min(a, b) == IF a <= b THEN a ELSE b

\* audio_processor.py:166-167
chunk_range(i, total) ==
    << i * chunk_samples, Min((i + 1) * chunk_samples, total) >>

----------------------------------------------------------------------------
(* Exceptions and the except clauses of transcribe().                      *)

\* main.py:252-300: no answer yet
NoResult == [text |-> <<>>, language |-> "", duration |-> -1, chunks_processed |-> -1]

\* main.py:252-300: no answer yet
NoResponse ==
    [status |-> 0, code |-> "", message |-> <<>>, details |-> <<>>,
     data |-> NoResult]

\* the upload behind a run that is looked at on its own
DefaultAudio == [filename |-> <<"a", ".", "w", "a", "v">>, size |-> 1]
NoError == [code |-> "", message |-> <<>>]

\* transcription.py:33-38
TranscriptionError(message, code) ==
    [type |-> "TranscriptionError", code |-> code, message |-> message]

\* audio_processor.py:22-24
AudioProcessingError(message) ==
    [type |-> "AudioProcessingError", code |-> "", message |-> message]

RuntimeError(message) ==
    [type |-> "RuntimeError", code |-> "", message |-> message]

\* transcription.py:137-146: the TranscriptionError that leaves transcribe()
wrap(exc) ==
    IF exc.type = "TranscriptionError"
        THEN [code |-> exc.code, message |-> exc.message]
    ELSE IF exc.type = "AudioProcessingError"
        THEN [code |-> "AUDIO_PROCESSING_ERROR", message |-> exc.message]
    ELSE [code |-> "TRANSCRIPTION_FAILED",
          message |-> <<"Failed to transcribe audio: ">> \o exc.message]

\* An exception propagates out of the try block: the except clause picks the
\* error and the finally clause (cleanup) runs next.
Raise(exc) ==
    /\ outcome' = "error"
    /\ error' = wrap(exc)
    /\ pc' = "cleanup"

----------------------------------------------------------------------------
(* The run.                                                                *)

Init ==
    /\ pc = "get_duration"
    /\ language \in Languages
    /\ disk = {audio_path}
    /\ disk0 = {audio_path}
    /\ duration = -1
    /\ temp_files = <<>>
    /\ converted_path = NoPath
    /\ chunks = <<>>
    /\ split_chunks = <<>>
    /\ total_samples = -1
    /\ ranges = <<>>
    /\ texts = <<>>
    /\ rec_i = 0
    /\ outcome = "none"
    /\ result = NoResult
    /\ error = NoError
    /\ conv_tried = <<>>
    /\ split_calls = 0
    /\ rec_calls = <<>>
    /\ rec_texts = <<>>
    /\ cleanup_calls = <<>>
    /\ absent_calls = 0
    /\ unlink_failed = {}
    /\ text_in = <<>>
    /\ lang_out = ""
    /\ swept = FALSE
    /\ conv_failed = <<>>
    /\ is_loaded \in BOOLEAN
    /\ audio = DefaultAudio
    /\ saved_path = audio_path
    /\ response = NoResponse
    /\ engine_log = <<>>
    /\ runs = <<>>

\* transcription.py:71, audio_processor.py:33-48
get_audio_duration ==
    /\ pc = "get_duration"
    /\ \/ \E d \in Durations :
            /\ duration' = d
            /\ pc' = "validate"
            /\ UNCHANGED <<outcome, error>>
       \/ /\ Raise(AudioProcessingError(
                     <<"Failed to get audio duration: ", "probe_error">>))
          /\ UNCHANGED duration
    /\ UNCHANGED <<language, disk, disk0, temp_files, converted_path, chunks,
                   split_chunks, total_samples, ranges, texts, rec_i, result,
                   conv_tried, split_calls, rec_calls, rec_texts,
                   cleanup_calls, absent_calls, unlink_failed, text_in, lang_out, swept, conv_failed, outer>>

\* transcription.py:75-85
ValidateDuration ==
    /\ pc = "validate"
    /\ IF gate_code(duration) # ""
          THEN Raise(TranscriptionError(<<"duration out of bounds">>,
                                        gate_code(duration)))
          ELSE /\ pc' = "convert_primary"
               /\ UNCHANGED <<outcome, error>>
    /\ UNCHANGED <<language, disk, disk0, duration, temp_files, converted_path,
                   chunks, split_chunks, total_samples, ranges, texts, rec_i,
                   result, conv_tried, split_calls, rec_calls, rec_texts,
                   cleanup_calls, absent_calls, unlink_failed, text_in, lang_out, swept, conv_failed, outer>>

\* Mutation of after_primary: the fallback runs whatever the first strategy did
after_primary_always_fallback(ok) == "convert_fallback"

\* audio_processor.py:116-122: return output_path when the first strategy
\* succeeded, enter the except clause and the fallback when it raised
after_primary(ok) == IF ok THEN "register_converted" ELSE "convert_fallback"

\* audio_processor.py:101-120: the pydub strategy. It may fail before export
\* creates the output file or after export has written part of it.
ConvertPrimary ==
    /\ pc = "convert_primary"
    /\ conv_tried' = Append(conv_tried, "primary")
    /\ \E ok \in BOOLEAN, written \in BOOLEAN :
          /\ ok => written
          /\ disk' = IF written THEN disk \cup {output_path} ELSE disk
          /\ conv_failed' = IF ok THEN conv_failed
                                  ELSE Append(conv_failed, "primary")
          /\ pc' = after_primary(ok)
    /\ UNCHANGED <<language, disk0, duration, temp_files, converted_path,
                   chunks, split_chunks, total_samples, ranges, texts, rec_i,
                   outcome, result, error, split_calls, rec_calls, rec_texts,
                   cleanup_calls, absent_calls, unlink_failed, text_in,
                   lang_out, swept, outer>>

\* Mutation of conversion_error: the first strategy's exception is reported
conversion_error_primary ==
    AudioProcessingError(<<"Failed to convert audio: ", "primary_error">>)

\* audio_processor.py:134-136: raised when the fallback fails too; it carries
\* the fallback's exception e2, not the first strategy's e
conversion_error ==
    AudioProcessingError(<<"Failed to convert audio: ", "fallback_error">>)

\* audio_processor.py:122-136: the librosa strategy, tried after the first failed
ConvertFallback ==
    /\ pc = "convert_fallback"
    /\ conv_tried' = Append(conv_tried, "fallback")
    /\ \/ /\ disk' = disk \cup {output_path}
          /\ pc' = "register_converted"
          /\ UNCHANGED <<outcome, error, conv_failed>>
       \/ /\ disk' = disk
          /\ conv_failed' = Append(conv_failed, "fallback")
          /\ Raise(conversion_error)
       \/ /\ disk' = disk \cup {output_path}
          /\ conv_failed' = Append(conv_failed, "fallback")
          /\ Raise(conversion_error)
    /\ UNCHANGED <<language, disk0, duration, temp_files, converted_path,
                   chunks, split_chunks, total_samples, ranges, texts, rec_i,
                   result, split_calls, rec_calls, rec_texts,
                   cleanup_calls, absent_calls, unlink_failed, text_in,
                   lang_out, swept, outer>>

\* audio_processor.py:116-117 and transcription.py:88-94: convert_to_wav
\* returns, the path is appended to temp_files, the branch is chosen
RegisterConverted ==
    /\ pc = "register_converted"
    /\ converted_path' = output_path
    /\ temp_files' = Append(temp_files, output_path)
    /\ pc' = IF needs_chunking(duration) THEN "split_load" ELSE "recognize_direct"
    /\ UNCHANGED <<language, disk, disk0, duration, chunks, split_chunks,
                   total_samples, ranges, texts, rec_i, outcome, result, error,
                   conv_tried, split_calls, rec_calls, rec_texts,
                   cleanup_calls, absent_calls, unlink_failed, text_in, lang_out, swept, conv_failed, outer>>

\* transcription.py:96 and audio_processor.py:149-163: split_audio is entered
\* and loads the converted file
SplitLoad ==
    /\ pc = "split_load"
    /\ split_calls' = split_calls + 1
    /\ split_chunks' = <<>>
    /\ \/ /\ converted_path \in disk
          /\ \E n \in TotalSamplesSet : total_samples' = n
          /\ pc' = "split_write"
          /\ UNCHANGED <<outcome, error>>
       \/ /\ Raise(AudioProcessingError(
                     <<"Failed to split audio: ", "load_error">>))
          /\ UNCHANGED total_samples
    /\ UNCHANGED <<language, disk, disk0, duration, temp_files, converted_path,
                   chunks, ranges, texts, rec_i, result, conv_tried,
                   rec_calls, rec_texts, cleanup_calls, absent_calls,
                   unlink_failed, text_in, lang_out, swept, conv_failed, outer>>

\* audio_processor.py:179-185: the files left by the except clause of
\* split_audio, which unlinks every path of `chunks` and ignores a failing unlink
\* (kept: the paths whose unlink failed)
split_cleanup(files, created, kept) == files \ (Range(created) \ kept)

\* audio_processor.py:165-175, 179-187: one iteration of the chunk loop. The
\* write may fail before the chunk file exists or after part of it was written.
SplitWriteChunk ==
    /\ pc = "split_write"
    /\ Len(split_chunks) < num_chunks(total_samples)
    /\ LET i == Len(split_chunks) IN
       \/ /\ disk' = disk \cup {chunk_path(i)}
          /\ split_chunks' = Append(split_chunks, chunk_path(i))
          /\ ranges' = Append(ranges, chunk_range(i, total_samples))
          /\ UNCHANGED <<pc, outcome, error, unlink_failed>>
       \/ \E partial \in {{}, {chunk_path(i)}}, kept \in SUBSET Range(split_chunks) :
            /\ disk' = split_cleanup(disk \cup partial, split_chunks, kept)
            /\ unlink_failed' = unlink_failed \cup kept
            /\ Raise(AudioProcessingError(
                       <<"Failed to split audio: ", "write_error">>))
            /\ UNCHANGED <<split_chunks, ranges>>
    /\ UNCHANGED <<language, disk0, duration, temp_files, converted_path, chunks,
                   total_samples, texts, rec_i, result, conv_tried, split_calls,
                   rec_calls, rec_texts, cleanup_calls, absent_calls,
                   text_in, lang_out, swept, conv_failed, outer>>

\* audio_processor.py:177 and transcription.py:96-103: split_audio returns, the
\* chunk paths are appended to temp_files, the recognition loop starts
RegisterChunks ==
    /\ pc = "split_write"
    /\ Len(split_chunks) = num_chunks(total_samples)
    /\ chunks' = split_chunks
    /\ temp_files' = temp_files \o split_chunks
    /\ texts' = <<>>
    /\ rec_i' = 0
    /\ pc' = "recognize_chunk"
    /\ UNCHANGED <<language, disk, disk0, duration, converted_path, split_chunks,
                   total_samples, ranges, outcome, result, error, conv_tried,
                   split_calls, rec_calls, rec_texts, cleanup_calls,
                   absent_calls, unlink_failed, text_in, lang_out, swept, conv_failed, outer>>

\* asr.py:103   stream.result.text.strip()
asr_text(raw) == strip(raw)

\* Mutation of next_chunk: the chunks are taken last to first
next_chunk_reversed(cs, i) == cs[Len(cs) - i]

\* transcription.py:104   for i, chunk_path in enumerate(chunks)
next_chunk(cs, i) == cs[i + 1]

\* asr.py:81-82: the adapter refuses to run without a loaded model
model_not_loaded == Raise(RuntimeError(<<"Model not loaded">>))

\* Mutation of chunk_recognition_failed: the failed chunk is skipped and the
\* loop goes on
chunk_recognition_skipped ==
    /\ rec_i' = rec_i + 1
    /\ UNCHANGED <<pc, outcome, error, rec_texts, texts>>

\* asr.py:107-109 and transcription.py:141-146: the engine raises inside the
\* loop; the RuntimeError leaves the loop and the try block
chunk_recognition_failed ==
    /\ Raise(RuntimeError(<<"Transcription failed: ", "engine_error">>))
    /\ UNCHANGED <<rec_texts, texts, rec_i>>

\* transcription.py:104-108, asr.py:81-109: one iteration of the recognition
\* loop, the engine's raw text being one of raws
RecognizeChunkFrom(raws) ==
    /\ pc = "recognize_chunk"
    /\ rec_i < Len(chunks)
    /\ rec_calls' = Append(rec_calls, next_chunk(chunks, rec_i))
    /\ \/ /\ is_loaded
          /\ next_chunk(chunks, rec_i) \in disk
          /\ \E raw \in raws :
                /\ rec_texts' = Append(rec_texts, asr_text(raw))
                /\ texts' = append_text(texts, asr_text(raw))
          /\ rec_i' = rec_i + 1
          /\ UNCHANGED <<pc, outcome, error>>
       \/ /\ is_loaded
          /\ chunk_recognition_failed
       \/ /\ ~is_loaded
          /\ model_not_loaded
          /\ UNCHANGED <<rec_texts, texts, rec_i>>
    /\ UNCHANGED <<language, disk, disk0, duration, temp_files, converted_path,
                   chunks, split_chunks, total_samples, ranges, result,
                   conv_tried, split_calls, cleanup_calls, absent_calls,
                   unlink_failed, text_in, lang_out, swept, conv_failed, outer>>

RecognizeChunk == RecognizeChunkFrom(EngineTexts)

\* Mutation of TranscriptionResult: only the chunks that gave a text are counted
TranscriptionResult_nonempty(full_text, chunks_processed) ==
    [text |-> strip(full_text),
     language |-> detected_language(full_text, language),
     duration |-> duration,
     chunks_processed |-> Len(texts)]

\* transcription.py:129-135 (processing_time_ms left out)
TranscriptionResult(full_text, chunks_processed) ==
    [text |-> strip(full_text),
     language |-> detected_language(full_text, language),
     duration |-> duration,
     chunks_processed |-> chunks_processed]

\* transcription.py:110
full_text_of(ts) == join(ts)

\* transcription.py:110-135: the loop is over, the texts are joined and the
\* result is built; the finally clause runs before it is returned
AssembleChunked ==
    /\ pc = "recognize_chunk"
    /\ rec_i = Len(chunks)
    /\ result' = TranscriptionResult(full_text_of(texts), Len(chunks))
    /\ outcome' = "ok"
    /\ pc' = "cleanup"
    /\ UNCHANGED <<language, disk, disk0, duration, temp_files, converted_path,
                   chunks, split_chunks, total_samples, ranges, texts, rec_i,
                   error, conv_tried, split_calls, rec_calls, rec_texts,
                   cleanup_calls, absent_calls, unlink_failed, text_in, lang_out, swept, conv_failed, outer>>

\* transcription.py:113-135, asr.py:81-109: recognition of the converted file,
\* the engine's raw text being one of raws
TranscribeDirectFrom(raws) ==
    /\ pc = "recognize_direct"
    /\ rec_calls' = Append(rec_calls, converted_path)
    /\ \/ /\ is_loaded
          /\ converted_path \in disk
          /\ \E raw \in raws :
                /\ rec_texts' = Append(rec_texts, asr_text(raw))
                /\ result' = TranscriptionResult(asr_text(raw), 1)
          /\ outcome' = "ok"
          /\ pc' = "cleanup"
          /\ UNCHANGED error
       \/ /\ is_loaded
          /\ Raise(RuntimeError(<<"Transcription failed: ", "engine_error">>))
          /\ UNCHANGED <<rec_texts, result>>
       \/ /\ ~is_loaded
          /\ model_not_loaded
          /\ UNCHANGED <<rec_texts, result>>
    /\ UNCHANGED <<language, disk, disk0, duration, temp_files, converted_path,
                   chunks, split_chunks, total_samples, ranges, texts, rec_i,
                   conv_tried, split_calls, cleanup_calls, absent_calls,
                   unlink_failed, text_in, lang_out, swept, conv_failed, outer>>

TranscribeDirect == TranscribeDirectFrom(EngineTexts)

\* Mutation of cleanup_file: no exists() test and no try/except around unlink,
\* so an absent path or a failing unlink raises out of the finally clause
cleanup_file_unguarded ==
    /\ pc = "cleanup"
    /\ Len(cleanup_calls) < Len(temp_files)
    /\ LET p == temp_files[Len(cleanup_calls) + 1] IN
       /\ cleanup_calls' = Append(cleanup_calls, p)
       /\ IF p \in disk
             THEN /\ disk' = disk \ {p}
                  /\ UNCHANGED <<pc, outcome, error>>
             ELSE /\ pc' = "done"
                  /\ outcome' = "error"
                  /\ error' = [code |-> "FileNotFoundError", message |-> <<>>]
                  /\ UNCHANGED disk
    /\ UNCHANGED <<language, disk0, duration, temp_files, converted_path,
                   chunks, split_chunks, total_samples, ranges, texts, rec_i,
                   result, conv_tried, split_calls, rec_calls, rec_texts,
                   absent_calls, unlink_failed, text_in, lang_out, swept, conv_failed, outer>>

\* Mutation of cleanup_file: a failing unlink is not caught and raises out of
\* cleanup_files and of the finally clause
cleanup_file_raising ==
    /\ pc = "cleanup"
    /\ Len(cleanup_calls) < Len(temp_files)
    /\ LET p == temp_files[Len(cleanup_calls) + 1] IN
       /\ cleanup_calls' = Append(cleanup_calls, p)
       /\ IF p \in disk
             THEN \/ /\ disk' = disk \ {p}
                     /\ UNCHANGED <<pc, outcome, error, unlink_failed,
                                    absent_calls>>
                  \/ /\ unlink_failed' = unlink_failed \cup {p}
                     /\ pc' = "done"
                     /\ outcome' = "error"
                     /\ error' = [code |-> "OSError", message |-> <<>>]
                     /\ UNCHANGED <<disk, absent_calls>>
             ELSE /\ absent_calls' = absent_calls + 1
                  /\ UNCHANGED <<pc, outcome, error, disk, unlink_failed>>
    /\ UNCHANGED <<language, disk0, duration, temp_files, converted_path,
                   chunks, split_chunks, total_samples, ranges, texts, rec_i,
                   result, conv_tried, split_calls, rec_calls, rec_texts,
                   text_in, lang_out, swept, conv_failed, outer>>

\* transcription.py:149, audio_processor.py:189-211: the finally clause; one
\* iteration of cleanup_files, that is one call of cleanup_file. unlink may
\* raise, which cleanup_file logs and swallows.
cleanup_file ==
    /\ pc = "cleanup"
    /\ Len(cleanup_calls) < Len(temp_files)
    /\ LET p == temp_files[Len(cleanup_calls) + 1] IN
       /\ cleanup_calls' = Append(cleanup_calls, p)
       /\ IF p \in disk
             THEN \/ /\ disk' = disk \ {p}
                     /\ UNCHANGED <<unlink_failed, absent_calls>>
                  \/ /\ unlink_failed' = unlink_failed \cup {p}
                     /\ UNCHANGED <<disk, absent_calls>>
             ELSE /\ absent_calls' = absent_calls + 1
                  /\ UNCHANGED <<disk, unlink_failed>>
    /\ UNCHANGED <<pc, language, disk0, duration, temp_files, converted_path,
                   chunks, split_chunks, total_samples, ranges, texts, rec_i,
                   outcome, result, error, conv_tried, split_calls, rec_calls,
                   rec_texts, text_in, lang_out, swept, conv_failed, outer>>

\* Mutation of Return: the end of cleanup_files is tested with the wrong
\* comparison and is never seen
Return_unreached ==
    /\ pc = "cleanup"
    /\ Len(cleanup_calls) > Len(temp_files)
    /\ pc' = "done"
    /\ UNCHANGED <<language, disk, disk0, duration, temp_files, converted_path,
                   chunks, split_chunks, total_samples, ranges, texts, rec_i,
                   outcome, result, error, conv_tried, split_calls, rec_calls,
                   rec_texts, cleanup_calls, absent_calls, unlink_failed,
                   text_in, lang_out, swept, conv_failed, outer>>

\* Mutation of Return: transcribe() returns without waiting for cleanup_files
Return_early ==
    /\ pc = "cleanup"
    /\ pc' = "done"
    /\ UNCHANGED <<language, disk, disk0, duration, temp_files, converted_path,
                   chunks, split_chunks, total_samples, ranges, texts, rec_i,
                   outcome, result, error, conv_tried, split_calls, rec_calls,
                   rec_texts, cleanup_calls, absent_calls, unlink_failed,
                   text_in, lang_out, swept, conv_failed, outer>>

\* transcription.py:129/138/140/143 after 149: cleanup_files has returned and
\* the result or the TranscriptionError reaches the caller
Return ==
    /\ pc = "cleanup"
    /\ Len(cleanup_calls) = Len(temp_files)
    /\ pc' = "done"
    /\ UNCHANGED <<language, disk, disk0, duration, temp_files, converted_path,
                   chunks, split_chunks, total_samples, ranges, texts, rec_i,
                   outcome, result, error, conv_tried, split_calls, rec_calls,
                   rec_texts, cleanup_calls, absent_calls, unlink_failed,
                   text_in, lang_out, swept, conv_failed, outer>>

Next ==
    \/ get_audio_duration
    \/ ValidateDuration
    \/ ConvertPrimary
    \/ ConvertFallback
    \/ RegisterConverted
    \/ SplitLoad
    \/ SplitWriteChunk
    \/ RegisterChunks
    \/ RecognizeChunk
    \/ AssembleChunked
    \/ TranscribeDirect
    \/ cleanup_file
    \/ Return

Spec == Init /\ [][Next]_vars

\* transcription.py:69-149 is straight-line code with bounded loops: when
\* every external call returns or raises, the run takes its next step
SpecLive == Init /\ [][Next]_vars /\ WF_vars(Next)

----------------------------------------------------------------------------
(* The run beside a sweep of the temp directory. cleanup_temp_directory is  *)
(* run by the lifespan of a service process (main.py:58 at startup,         *)
(* main.py:88 at shutdown) on the temp directory the run works in; it       *)
(* removes every file it can, whoever made it.                              *)

\* audio_processor.py:214-238 (kept: the files whose unlink failed)
cleanup_temp_directory ==
    /\ pc # "done"
    /\ ~swept
    /\ swept' = TRUE
    /\ \E kept \in SUBSET disk : disk' = kept
    /\ UNCHANGED <<pc, language, disk0, duration, temp_files, converted_path,
                   chunks, split_chunks, total_samples, ranges, texts, rec_i,
                   outcome, result, error, conv_tried, split_calls, rec_calls,
                   rec_texts, cleanup_calls, absent_calls, unlink_failed,
                   text_in, lang_out, conv_failed, outer>>

\* Neither the language argument nor what the engine recognizes plays a part
\* in cleanup: here no language is given and the engine returns one text.
InitEnv == Init /\ language = "None"

EnvTexts == { <<97>> }

RecognizeChunkEnv == RecognizeChunkFrom(EnvTexts)

TranscribeDirectEnv == TranscribeDirectFrom(EnvTexts)

NextEnv ==
    \/ get_audio_duration
    \/ ValidateDuration
    \/ ConvertPrimary
    \/ ConvertFallback
    \/ RegisterConverted
    \/ SplitLoad
    \/ SplitWriteChunk
    \/ RegisterChunks
    \/ RecognizeChunkEnv
    \/ AssembleChunked
    \/ TranscribeDirectEnv
    \/ cleanup_file
    \/ Return
    \/ cleanup_temp_directory

SpecEnv == InitEnv /\ [][NextEnv]_vars

----------------------------------------------------------------------------
(* The language heuristic on its own.                                       *)

Rep(c, n) == [k \in 1..n |-> c]

\* Inputs: runs of LATIN SMALL A, CYRILLIC SMALL DE, CYRILLIC THOUSANDS SIGN
\* and SPACE, in either order
LangTexts ==
    { Rep(97, i) \o Rep(1076, j) \o Rep(1154, k) \o Rep(32, l) :
        i \in 0..MaxRun, j \in 0..MaxRun, k \in 0..1, l \in 0..1 }
    \cup
    { Rep(32, l) \o Rep(1154, k) \o Rep(1076, j) \o Rep(97, i) :
        i \in 0..MaxRun, j \in 0..MaxRun, k \in 0..1, l \in 0..1 }

InitLang ==
    /\ pc = "detect_language"
    /\ text_in \in LangTexts
    /\ language = "None"
    /\ disk = {}
    /\ disk0 = {}
    /\ duration = -1
    /\ temp_files = <<>>
    /\ converted_path = NoPath
    /\ chunks = <<>>
    /\ split_chunks = <<>>
    /\ total_samples = -1
    /\ ranges = <<>>
    /\ texts = <<>>
    /\ rec_i = 0
    /\ outcome = "none"
    /\ result = NoResult
    /\ error = NoError
    /\ conv_tried = <<>>
    /\ split_calls = 0
    /\ rec_calls = <<>>
    /\ rec_texts = <<>>
    /\ cleanup_calls = <<>>
    /\ absent_calls = 0
    /\ unlink_failed = {}
    /\ lang_out = ""
    /\ swept = FALSE
    /\ conv_failed = <<>>
    /\ is_loaded = TRUE
    /\ audio = DefaultAudio
    /\ saved_path = audio_path
    /\ response = NoResponse
    /\ engine_log = <<>>
    /\ runs = <<>>

\* transcription.py:151-177 applied to text_in
DetectLanguage ==
    /\ pc = "detect_language"
    /\ lang_out' = _detect_language(text_in)
    /\ pc' = "language_detected"
    /\ UNCHANGED <<language, disk, disk0, duration, temp_files, converted_path,
                   chunks, split_chunks, total_samples, ranges, texts, rec_i,
                   outcome, result, error, conv_tried, split_calls, rec_calls,
                   rec_texts, cleanup_calls, absent_calls, unlink_failed,
                   text_in, swept, conv_failed, outer>>

NextLang == DetectLanguage

SpecLang == InitLang /\ [][NextLang]_vars

----------------------------------------------------------------------------
(* Properties of a pipeline run.                                           *)

IsArtifact(p) == p.kind \in {"converted", "chunk"}

Done == pc = "done"
Succeeded == pc = "done" /\ outcome = "ok"
Failed == pc = "done" /\ outcome = "error"

\* The gate has decided: the run is past transcription.py:85 with a duration.
Gated == duration # -1 /\ pc \notin {"get_duration", "validate"}

\* split_audio was called and returned its list (it did not raise).
SplitReturned ==
    /\ split_calls = 1
    /\ pc \in {"recognize_chunk", "cleanup", "done"}
    /\ ~(outcome = "error" /\ error.code = "AUDIO_PROCESSING_ERROR")

\* Both conversion strategies were attempted and both failed.
BothConversionsFailed ==
    /\ conv_tried = <<"primary", "fallback">>
    /\ pc \in {"cleanup", "done"}
    /\ converted_path = NoPath

HasAdjacentSpaces(s) == \E k \in 1..(Len(s) - 1) : s[k] = 32 /\ s[k + 1] = 32

\* The texts of ts that are not empty, in order, separated by one space.
RECURSIVE SpaceJoined(_)
SpaceJoined(ts) ==
    IF ts = <<>> THEN <<>>
    ELSE LET rest == SpaceJoined(Tail(ts)) IN
         IF Head(ts) = <<>> THEN rest
         ELSE IF rest = <<>> THEN Head(ts)
         ELSE Head(ts) \o <<32>> \o rest

\* C1: after any run, successful or failed, the files of the temp directory are
\* exactly those that were there before the run. (Stated for the runs in which
\* no unlink failed, so that a file the system refused to delete is not what
\* breaks it.)
C1_TempDirUnchanged ==
    (Done /\ unlink_failed = {}) => disk = disk0

\* C2: at every point of a run, every converted file or chunk file that exists
\* on disk is already registered in temp_files.
C2_RegisteredAtCreation ==
    \A p \in disk : IsArtifact(p) => p \in Range(temp_files)

\* The codes transcribe() raises (transcription.py:78, 84, 140, 145).
PipelineCodes ==
    {"AUDIO_TOO_LONG", "AUDIO_TOO_SHORT", "AUDIO_PROCESSING_ERROR",
     "TRANSCRIPTION_FAILED"}

\* C3: on every exit of a run, every registered path has been handed to
\* cleanup_file exactly once, in registration order, and is gone unless its
\* unlink failed; a registered path that was already absent is passed over
\* without an error: the remaining paths are still handled and the run ends
\* with the outcome of the pipeline.
C3_CleanupOnce ==
    Done =>
        /\ cleanup_calls = temp_files
        /\ \A p \in Range(temp_files) :
              /\ Count(cleanup_calls, p) = 1
              /\ p \in disk => p \in unlink_failed
        /\ outcome \in {"ok", "error"}
        /\ outcome = "error" => error.code \in PipelineCodes

\* a run aborted in the middle of the recognition loop, some of whose chunk
\* files were already gone when cleanup reached them
C3_Witness ==
    /\ Done
    /\ error.code = "TRANSCRIPTION_FAILED"
    /\ 1 < Len(rec_calls) /\ Len(rec_calls) < Len(chunks)
    /\ absent_calls > 0 /\ absent_calls < Len(temp_files)
    /\ cleanup_calls = temp_files
    /\ Range(temp_files) \cap disk = {}

\* C4: once the gate has decided, a duration below 0.1 s has failed the run with
\* AUDIO_TOO_SHORT and a duration above the maximum with AUDIO_TOO_LONG, both
\* before any conversion; any other duration, the two bounds included, went on
\* to conversion and is the duration of the result.
C4_DurationGate ==
    Gated =>
        /\ duration < 100 =>
              /\ outcome = "error" /\ error.code = "AUDIO_TOO_SHORT"
              /\ conv_tried = <<>>
        /\ duration > max_audio_duration_seconds * 1000 =>
              /\ outcome = "error" /\ error.code = "AUDIO_TOO_LONG"
              /\ conv_tried = <<>>
        /\ (100 <= duration /\ duration <= max_audio_duration_seconds * 1000) =>
              /\ error.code \notin {"AUDIO_TOO_SHORT", "AUDIO_TOO_LONG"}
              /\ pc = "convert_primary" \/ conv_tried # <<>>
              /\ outcome = "ok" => result.duration = duration

C4_Witness ==
    Succeeded /\ duration = max_audio_duration_seconds * 1000
              /\ result.duration = duration

\* C5: a successful run whose duration is at most the chunk size never called
\* the chunker, called the recognizer exactly once, on the converted file, and
\* reports chunks_processed = 1.
C5_ShortAudioSingleChunk ==
    (Succeeded /\ duration <= chunk_size_seconds * 1000) =>
        /\ split_calls = 0
        /\ rec_calls = <<output_path>>
        /\ result.chunks_processed = 1

C5_Witness ==
    Succeeded /\ duration = chunk_size_seconds * 1000 /\ rec_calls = <<output_path>>

\* C6: when split_audio returns, it has written n = ceil(total_samples / (C*R))
\* chunks, named by index 0..n-1 in order; their sample ranges start at 0, end
\* at total_samples, each starts where the previous one ends, none is empty,
\* every chunk but the last is C*R samples long and the last holds the rest.
C6_ChunkPartition ==
    SplitReturned =>
        LET n == Len(ranges)
            CR == chunk_size_seconds * sample_rate
        IN  /\ n * CR >= total_samples
            /\ (n - 1) * CR < total_samples \/ (n = 0 /\ total_samples = 0)
            /\ chunks = [k \in 1..n |-> chunk_path(k - 1)]
            /\ n > 0 => ranges[1][1] = 0 /\ ranges[n][2] = total_samples
            /\ \A k \in 1..(n - 1) :
                  /\ ranges[k][2] = ranges[k + 1][1]
                  /\ ranges[k][2] - ranges[k][1] = CR
            /\ \A k \in 1..n :
                  /\ ranges[k] = << (k - 1) * CR,
                                    IF k * CR <= total_samples THEN k * CR
                                                               ELSE total_samples >>
                  /\ ranges[k][1] < ranges[k][2]
                  /\ ranges[k][2] - ranges[k][1] <= CR

\* 125 s at 60 s per chunk: three chunks of 60 s, 60 s and 5 s
C6_Witness ==
    /\ SplitReturned
    /\ total_samples = 125 * sample_rate
    /\ ranges = << <<0, 60 * sample_rate>>,
                   <<60 * sample_rate, 120 * sample_rate>>,
                   <<120 * sample_rate, 125 * sample_rate>> >>

\* C7: in a successful chunked run the result text is the texts the recognizer
\* returned, in chunk order, the empty ones left out, separated by one space,
\* with no whitespace at either end (and no doubled space, none of the chunk
\* texts having one).
C7_AssembledText ==
    (Succeeded /\ split_calls = 1) =>
        /\ Len(rec_texts) = Len(chunks)
        /\ result.text = SpaceJoined(rec_texts)
        /\ ~HasAdjacentSpaces(result.text)
        /\ result.text # <<>> =>
              result.text[1] # 32 /\ result.text[Len(result.text)] # 32

C7_Witness ==
    /\ Succeeded /\ split_calls = 1
    /\ rec_texts = << <<97, 32, 97>>, <<>>, <<1076>> >>
    /\ result.text = <<97, 32, 97, 32, 1076>>

C10_ConversionFailedCode ==
    (Done /\ BothConversionsFailed) =>
        /\ outcome = "error"
        /\ error.code = "CONVERSION_FAILED"
        /\ error.message = <<"Failed to convert audio: ", "fallback_error">>
        /\ split_calls = 0 /\ rec_calls = <<>>
        /\ \A p \in disk : p.kind # "chunk"

\* C10 amended: the code is AUDIO_PROCESSING_ERROR; the rest is as stated.
C10_ConversionFailure ==
    BothConversionsFailed =>
        /\ outcome = "error"
        /\ error.code = "AUDIO_PROCESSING_ERROR"
        /\ error.message = <<"Failed to convert audio: ", "fallback_error">>
        /\ split_calls = 0 /\ rec_calls = <<>>
        /\ \A p \in disk : p.kind # "chunk"

C10_Witness ==
    Done /\ BothConversionsFailed /\ error.code = "AUDIO_PROCESSING_ERROR"

\* The counts the heuristic is specified by.
CyrillicBlockCount(text) ==
    Cardinality({ k \in 1..Len(text) : text[k] >= 1024 /\ text[k] <= 1279 })

AlphabeticCount(text) ==
    Cardinality({ k \in 1..Len(text) : text[k] \in {97, 1076} })

\* C9: without an override the language is "en" for a text with no alphabetic
\* code point (the empty text included), "ru" when the code points of
\* U+0400..U+04FF are strictly more than 0.3 of the alphabetic ones, and "en"
\* otherwise, a ratio of exactly 0.3 included.
C9_DetectLanguage ==
    pc = "language_detected" =>
        LET c == CyrillicBlockCount(text_in)
            a == AlphabeticCount(text_in)
        IN  /\ a = 0 => lang_out = "en"
            /\ (a > 0 /\ 10 * c > 3 * a) => lang_out = "ru"
            /\ (a > 0 /\ 10 * c <= 3 * a) => lang_out = "en"

\* ratio exactly 0.3: three Cyrillic letters among ten letters
C9_Witness ==
    /\ pc = "language_detected"
    /\ CyrillicBlockCount(text_in) = 3
    /\ AlphabeticCount(text_in) = 10
    /\ lang_out = "en"

----------------------------------------------------------------------------
(* Failures inside the chunker and the recognizer, cleanup and ordering.   *)

\* split_audio raised while writing a chunk.
ChunkWriteFailed ==
    /\ outcome = "error"
    /\ error.message = <<"Failed to split audio: ", "write_error">>

\* C11: when writing chunk k fails inside split_audio, every chunk file created
\* in that call, a partly written file of chunk k included, has been deleted
\* when the error leaves the run, and the run fails. (Stated for the runs in
\* which no unlink failed; the failure code is the repository's
\* AUDIO_PROCESSING_ERROR, which stands for ChunkingFailed.)
C11_NoChunkLeftAfterFailedSplit ==
    (Done /\ ChunkWriteFailed /\ unlink_failed = {}) =>
        /\ error.code = "AUDIO_PROCESSING_ERROR"
        /\ \A p \in disk : p.kind # "chunk"

\* The engine raised in a recognition call: the model was loaded and the call
\* has no text.
EngineRaised == is_loaded /\ Len(rec_calls) > Len(rec_texts)

NoDuplicates(s) == \A j, k \in 1..Len(s) : j # k => s[j] # s[k]

\* C12 as stated: when the engine raises, the run fails with code
\* RecognitionFailed.
C12_RecognitionFailedCode ==
    (Done /\ EngineRaised) =>
        /\ outcome = "error"
        /\ error.code \in {"RecognitionFailed", "RECOGNITION_FAILED"}

\* C12 amended: when the engine raises on chunk i (or on the direct
\* recognition) the run leaves the loop at once and fails with code
\* TRANSCRIPTION_FAILED; the recognizer was called on chunks 0..i only, each
\* once, and there is no TranscriptionResult.
C12_RecognitionFailureAborts ==
    EngineRaised =>
        /\ pc \in {"cleanup", "done"}
        /\ outcome = "error"
        /\ error.code = "TRANSCRIPTION_FAILED"
        /\ error.message = <<"Failed to transcribe audio: ",
                             "Transcription failed: ", "engine_error">>
        /\ result = NoResult
        /\ Len(rec_calls) = Len(rec_texts) + 1
        /\ NoDuplicates(rec_calls)
        /\ split_calls = 1 =>
              rec_calls = [k \in 1..Len(rec_calls) |-> chunk_path(k - 1)]
        /\ split_calls = 0 => rec_calls = <<output_path>>

\* the engine raises on the second of three chunks, after a first text
C12_Witness ==
    /\ Done /\ EngineRaised
    /\ Len(chunks) = 3 /\ Len(rec_calls) = 2
    /\ rec_texts = << <<97, 32, 97>> >>
    /\ result = NoResult

\* C15: a failing deletion never changes the outcome of the run: from the
\* moment cleanup starts, outcome, result and error stay what the pipeline
\* made them, whatever each unlink does; and cleanup ends only when every
\* registered path has been handed to cleanup_file.
C15_CleanupKeepsOutcome ==
    [][ /\ pc = "cleanup" =>
              outcome' = outcome /\ result' = result /\ error' = error
        /\ (pc = "cleanup" /\ pc' = "done") => cleanup_calls = temp_files
      ]_vars

\* the first deletion failed, the second was still made, the run succeeded
C15_Witness ==
    /\ Succeeded
    /\ Len(temp_files) >= 2
    /\ temp_files[1] \in unlink_failed
    /\ temp_files[2] \notin disk
    /\ cleanup_calls = temp_files

\* C18: the stages of a run come in the order gate, conversion, chunking or
\* direct, recognition, assembly: no conversion before the gate passed; the
\* chunker only after a successful conversion, only for a duration above the
\* chunk size, and at most once; no recognition before conversion (and
\* chunking, when taken) succeeded; a result only after every recognition
\* call returned.
C18_StageOrder ==
    /\ conv_tried # <<>> =>
          /\ duration >= 100
          /\ duration <= max_audio_duration_seconds * 1000
    /\ split_calls > 0 =>
          /\ split_calls = 1
          /\ converted_path = output_path
          /\ output_path \in Range(temp_files)
          /\ duration > chunk_size_seconds * 1000
    /\ rec_calls # <<>> =>
          /\ converted_path = output_path
          /\ IF duration > chunk_size_seconds * 1000
                THEN /\ split_calls = 1
                     /\ chunks = split_chunks
                     /\ Len(ranges) = Len(chunks)
                     /\ \A k \in 1..Len(chunks) : chunks[k] \in Range(temp_files)
                ELSE split_calls = 0
    /\ outcome = "ok" =>
          /\ pc \in {"cleanup", "done"}
          /\ Len(rec_texts) = Len(rec_calls)
          /\ split_calls = 1 => Len(rec_calls) = Len(chunks)
          /\ split_calls = 0 => Len(rec_calls) = 1

C18_Witness ==
    /\ Succeeded
    /\ conv_tried = <<"primary", "fallback">>
    /\ split_calls = 1
    /\ Len(rec_calls) = 3

\* C19: in a chunked run the recognizer is called on the chunks in increasing
\* index order, each at most once, and a call starts only when every earlier
\* call has returned.
C19_ChunksInOrder ==
    split_calls = 1 =>
        /\ rec_calls = [k \in 1..Len(rec_calls) |-> chunk_path(k - 1)]
        /\ \A k \in 1..Len(rec_calls) : rec_calls[k] = chunks[k]
        /\ NoDuplicates(rec_calls)
        /\ Len(rec_texts) <= Len(rec_calls)
        /\ Len(rec_calls) <= Len(rec_texts) + 1
        /\ pc = "recognize_chunk" =>
              Len(rec_calls) = Len(rec_texts) /\ rec_i = Len(rec_calls)

C19_Witness ==
    /\ Succeeded
    /\ rec_calls = <<chunk_path(0), chunk_path(1), chunk_path(2)>>
    /\ Len(rec_texts) = 3

\* C20: the fallback strategy is attempted if and only if the primary strategy
\* failed; each strategy is attempted at most once in a run; after a fallback
\* success the run stands where a primary success leaves it: no error, the
\* same output path on disk, returned and then registered.
C20_FallbackIffPrimaryFailed ==
    /\ ("fallback" \in Range(conv_tried) \/ pc = "convert_fallback")
          <=> "primary" \in Range(conv_failed)
    /\ Count(conv_tried, "primary") <= 1
    /\ Count(conv_tried, "fallback") <= 1
    /\ pc = "register_converted" =>
          /\ outcome = "none" /\ error = NoError /\ result = NoResult
          /\ disk = disk0 \cup {output_path}
          /\ temp_files = <<>> /\ converted_path = NoPath
    /\ converted_path # NoPath =>
          /\ converted_path = output_path
          /\ temp_files[1] = output_path
          /\ conv_failed \in {<<>>, <<"primary">>}
    /\ conv_failed = <<"primary", "fallback">> <=>
          (outcome = "error" /\ error = wrap(conversion_error))

\* the primary strategy failed, the fallback succeeded, the run succeeded
C20_Witness ==
    /\ Succeeded
    /\ conv_tried = <<"primary", "fallback">>
    /\ conv_failed = <<"primary">>
    /\ converted_path = output_path
    /\ temp_files[1] = output_path

----------------------------------------------------------------------------
(* The request handler around the run: main.py, transcribe_audio.          *)

\* config.py:38-41
max_file_size_mb == 100

\* config.py:62-65
supported_formats ==
    { <<"m", "p", "3">>, <<"w", "a", "v">>, <<"o", "g", "g">>,
      <<"m", "4", "a">>, <<"f", "l", "a", "c">>, <<"o", "p", "u", "s">>,
      <<"w", "e", "b", "m">>, <<"o", "g", "a">> }

UpperCase == <<"A", "B", "C", "D", "E", "F", "G", "H", "I", "J", "K", "L", "M",
               "N", "O", "P", "Q", "R", "S", "T", "U", "V", "W", "X", "Y", "Z">>
LowerCase == <<"a", "b", "c", "d", "e", "f", "g", "h", "i", "j", "k", "l", "m",
               "n", "o", "p", "q", "r", "s", "t", "u", "v", "w", "x", "y", "z">>

\* str.lower, one character
lower_char(c) ==
    IF \E k \in 1..26 : UpperCase[k] = c
        THEN LowerCase[CHOOSE k \in 1..26 : UpperCase[k] = c]
        ELSE c

\* str.lower
lower(str) == [k \in 1..Len(str) |-> lower_char(str[k])]

\* str.rfind(c), counted from 1; 0 when c does not occur
rfind(str, c) ==
    IF \E k \in 1..Len(str) : str[k] = c
        THEN CHOOSE k \in 1..Len(str) :
                 str[k] = c /\ \A j \in (k + 1)..Len(str) : str[j] # c
        ELSE 0

RECURSIVE rstrip_slashes(_)
\* pathlib drops the slashes that end a path
rstrip_slashes(str) ==
    IF str # <<>> /\ str[Len(str)] = "/"
        THEN rstrip_slashes(SubSeq(str, 1, Len(str) - 1))
        ELSE str

\* PurePath.name: the last component of the path
path_name(filename) ==
    LET p == rstrip_slashes(filename) IN SubSeq(p, rfind(p, "/") + 1, Len(p))

\* PurePath.suffix: from the last dot of the name on, unless that dot begins
\* or ends the name
suffix(filename) ==
    LET n == path_name(filename)
        i == rfind(n, ".")
    IN IF 1 < i /\ i < Len(n) THEN SubSeq(n, i, Len(n)) ELSE <<>>

RECURSIVE lstrip_dots(_)
\* str.lstrip(".")
lstrip_dots(str) ==
    IF str # <<>> /\ Head(str) = "." THEN lstrip_dots(Tail(str)) ELSE str

\* Mutation of validate_format: every filename is accepted
validate_format_any(filename) == TRUE

\* audio_processor.py:50-61
validate_format(filename) ==
    lstrip_dots(lower(suffix(filename))) \in supported_formats

\* main.py:230: the size limit in bytes
max_file_size == max_file_size_mb * 1024 * 1024

\* the filenames a request may carry
FileNames ==
    { <<>>,
      <<"a", ".", "m", "p", "3">>,
      <<"a", ".", "M", "P", "3">>,
      <<"a", ".", "t", "x", "t">>,
      <<"m", "p", "3">>,
      <<".", "w", "a", "v">>,
      <<"a", ".", "m", "p", "3", ".", "t", "x", "t">>,
      <<"d", ".", "m", "p", "3", "/", "a">> }

\* audio.size; 0 also stands for a size that is not known (None)
FileSizes == {0, 1, max_file_size, max_file_size + 1}

\* main.py:204-213, 217-227, 231-240, 264-300: the body of an HTTPException
ErrorResponse(status, code, message, details) ==
    [status |-> status, code |-> code, message |-> message,
     details |-> details, data |-> NoResult]

\* main.py:252-260
TranscriptionResponse(r) ==
    [status |-> 200, code |-> "", message |-> <<>>, details |-> <<>>,
     data |-> r]

\* main.py:202-240: the checks made before anything is saved; NoResponse when
\* the request passes them
request_rejection(a) ==
    IF a.filename = <<>>
        THEN ErrorResponse(400, "MISSING_FILENAME",
                           <<"Audio file must have a filename">>, <<>>)
    ELSE IF ~validate_format(a.filename)
        THEN ErrorResponse(400, "INVALID_AUDIO_FORMAT",
                           <<"Unsupported audio format. Supported: ",
                             "mp3, wav, ogg, m4a, flac, opus, webm, oga">>, <<>>)
    ELSE IF a.size # 0 /\ a.size > max_file_size
        THEN ErrorResponse(413, "FILE_TOO_LARGE",
                           <<"Audio file exceeds maximum size of ", "100", "MB">>,
                           <<>>)
    ELSE NoResponse

\* Mutation of http_error: every exception is answered as an internal error
http_error_internal(exc) ==
    ErrorResponse(500, "INTERNAL_ERROR", <<"Failed to transcribe audio">>,
                  exc.message)

\* main.py:262-300: the except clauses of the handler
http_error(exc) ==
    IF exc.type = "TranscriptionError"
        THEN ErrorResponse(500, exc.code, exc.message, <<>>)
    ELSE IF exc.type = "AudioProcessingError"
        THEN ErrorResponse(400, "AUDIO_PROCESSING_ERROR", exc.message, <<>>)
    ELSE ErrorResponse(500, "INTERNAL_ERROR", <<"Failed to transcribe audio">>,
                       exc.message)

\* A request arrives at a running service whose temp directory is empty.
InitReq ==
    /\ pc = "request"
    /\ language = "None"
    /\ disk = {}
    /\ disk0 = {}
    /\ duration = -1
    /\ temp_files = <<>>
    /\ converted_path = NoPath
    /\ chunks = <<>>
    /\ split_chunks = <<>>
    /\ total_samples = -1
    /\ ranges = <<>>
    /\ texts = <<>>
    /\ rec_i = 0
    /\ outcome = "none"
    /\ result = NoResult
    /\ error = NoError
    /\ conv_tried = <<>>
    /\ split_calls = 0
    /\ rec_calls = <<>>
    /\ rec_texts = <<>>
    /\ cleanup_calls = <<>>
    /\ absent_calls = 0
    /\ unlink_failed = {}
    /\ text_in = <<>>
    /\ lang_out = ""
    /\ swept = FALSE
    /\ conv_failed = <<>>
    /\ is_loaded \in BOOLEAN
    /\ audio \in [filename : FileNames, size : FileSizes]
    /\ saved_path = NoPath
    /\ response = NoResponse
    /\ engine_log = <<>>
    /\ runs = <<>>

\* main.py:202-243
ValidateRequest ==
    /\ pc = "request"
    /\ IF request_rejection(audio) # NoResponse
          THEN /\ response' = request_rejection(audio)
               /\ pc' = "responded"
          ELSE /\ pc' = "save_upload"
               /\ UNCHANGED response
    /\ UNCHANGED <<language, disk, disk0, duration, temp_files, converted_path,
                   chunks, split_chunks, total_samples, ranges, texts, rec_i,
                   outcome, result, error, conv_tried, split_calls, rec_calls,
                   rec_texts, cleanup_calls, absent_calls, unlink_failed,
                   text_in, lang_out, swept, conv_failed, is_loaded, engine_log, runs, audio,
                   saved_path>>

\* main.py:247, 275-286, 302-305 and audio_processor.py:63-89: the upload is
\* written to the temp directory; a failure may leave part of the file, is
\* answered at once, and finds saved_path still None in the finally clause
save_upload ==
    /\ pc = "save_upload"
    /\ \/ /\ disk' = disk \cup {audio_path}
          /\ disk0' = disk \cup {audio_path}
          /\ saved_path' = audio_path
          /\ pc' = "get_duration"
          /\ UNCHANGED response
       \/ \E partial \in {{}, {audio_path}} :
            /\ disk' = disk \cup partial
            /\ response' = http_error(AudioProcessingError(
                               <<"Failed to save upload: ", "io_error">>))
            /\ pc' = "responded"
            /\ UNCHANGED <<disk0, saved_path>>
    /\ UNCHANGED <<language, duration, temp_files, converted_path,
                   chunks, split_chunks, total_samples, ranges, texts, rec_i,
                   outcome, result, error, conv_tried, split_calls, rec_calls,
                   rec_texts, cleanup_calls, absent_calls, unlink_failed,
                   text_in, lang_out, swept, conv_failed, is_loaded, engine_log, runs, audio>>

\* main.py:250-273: transcribe() has returned or raised; the answer is built
Respond ==
    /\ pc = "done"
    /\ response' = IF outcome = "ok"
                      THEN TranscriptionResponse(result)
                      ELSE http_error(TranscriptionError(error.message,
                                                         error.code))
    /\ pc' = "cleanup_upload"
    /\ UNCHANGED <<language, disk, disk0, duration, temp_files, converted_path,
                   chunks, split_chunks, total_samples, ranges, texts, rec_i,
                   outcome, result, error, conv_tried, split_calls, rec_calls,
                   rec_texts, cleanup_calls, absent_calls, unlink_failed,
                   text_in, lang_out, swept, conv_failed, is_loaded, engine_log, runs, audio,
                   saved_path>>

\* main.py:302-305 and audio_processor.py:189-201: the finally clause of the
\* handler removes the saved upload; then the answer leaves the handler
CleanupUpload ==
    /\ pc = "cleanup_upload"
    /\ IF saved_path # NoPath /\ saved_path \in disk
          THEN \/ /\ disk' = disk \ {saved_path}
                  /\ UNCHANGED unlink_failed
               \/ /\ unlink_failed' = unlink_failed \cup {saved_path}
                  /\ UNCHANGED disk
          ELSE UNCHANGED <<disk, unlink_failed>>
    /\ pc' = "responded"
    /\ UNCHANGED <<language, disk0, duration, temp_files, converted_path,
                   chunks, split_chunks, total_samples, ranges, texts, rec_i,
                   outcome, result, error, conv_tried, split_calls, rec_calls,
                   rec_texts, cleanup_calls, absent_calls, text_in, lang_out,
                   swept, conv_failed, outer>>

NextReq ==
    \/ ValidateRequest
    \/ save_upload
    \/ get_audio_duration
    \/ ValidateDuration
    \/ ConvertPrimary
    \/ ConvertFallback
    \/ RegisterConverted
    \/ SplitLoad
    \/ SplitWriteChunk
    \/ RegisterChunks
    \/ RecognizeChunkEnv
    \/ AssembleChunked
    \/ TranscribeDirectEnv
    \/ cleanup_file
    \/ Return
    \/ Respond
    \/ CleanupUpload

SpecReq == InitReq /\ [][NextReq]_vars

----------------------------------------------------------------------------
(* Properties of a request.                                                *)

\* The answer has left the handler.
Delivered == pc = "responded"

\* An exception that is no domain error was raised inside the pipeline: the
\* adapter was called without a loaded model (asr.py:81-82).
UnexpectedRaised == ~is_loaded /\ rec_calls # <<>>

\* C13: an unexpected exception raised inside the pipeline reaches the caller
\* as code InternalError with a generic message that does not hold the
\* exception's text; the text is in the details field only.
C13_UnexpectedIsInternalError ==
    (Delivered /\ UnexpectedRaised) =>
        /\ response.code \in {"InternalError", "INTERNAL_ERROR"}
        /\ "Model not loaded" \notin Range(response.message)
        /\ response.details = <<"Model not loaded">>

\* the eight values of the error taxonomy, in both spellings
TaxonomyCodes ==
    { "FormatUnsupported", "FileTooLarge", "AudioTooShort", "AudioTooLong",
      "ConversionFailed", "ChunkingFailed", "RecognitionFailed",
      "InternalError",
      "FORMAT_UNSUPPORTED", "FILE_TOO_LARGE", "AUDIO_TOO_SHORT",
      "AUDIO_TOO_LONG", "CONVERSION_FAILED", "CHUNKING_FAILED",
      "RECOGNITION_FAILED", "INTERNAL_ERROR" }

\* C14 as stated: every failure delivered to the caller carries one of the
\* eight taxonomy codes, and an error raised inside the pipeline reaches the
\* caller with the code it was raised with.
C14_TaxonomyCodes ==
    (Delivered /\ response.status # 200) =>
        /\ response.code \in TaxonomyCodes
        /\ outcome = "error" => response.code = error.code

\* C14 amended: every failure delivered to the caller carries one of the
\* codes MISSING_FILENAME, INVALID_AUDIO_FORMAT, FILE_TOO_LARGE,
\* AUDIO_TOO_SHORT, AUDIO_TOO_LONG, AUDIO_PROCESSING_ERROR and
\* TRANSCRIPTION_FAILED, chosen by what failed; a TranscriptionError that
\* leaves transcribe() reaches the caller with its own code and message.
C14_FailureCodes ==
    (Delivered /\ response.status # 200) =>
        /\ response.code \in
              { "MISSING_FILENAME", "INVALID_AUDIO_FORMAT", "FILE_TOO_LARGE",
                "AUDIO_TOO_SHORT", "AUDIO_TOO_LONG", "AUDIO_PROCESSING_ERROR",
                "TRANSCRIPTION_FAILED" }
        /\ outcome = "error" =>
              /\ response.status = 500
              /\ response.code = error.code
              /\ response.message = error.message
              /\ response.details = <<>>
        /\ response.code \in {"AUDIO_TOO_SHORT", "AUDIO_TOO_LONG"} =>
              response.code = gate_code(duration)
        /\ response.code = "MISSING_FILENAME" <=> audio.filename = <<>>
        /\ response.code = "FILE_TOO_LARGE" => audio.size > max_file_size
        /\ (outcome = "none" /\ response.code = "AUDIO_PROCESSING_ERROR") =>
              /\ saved_path = NoPath
              /\ response.status = 400
              /\ response.message = <<"Failed to save upload: ", "io_error">>
        /\ response.data = NoResult

\* the gate's error reaches the caller with the code it was raised with
C14_Witness ==
    /\ Delivered
    /\ outcome = "error"
    /\ error.code = "AUDIO_TOO_LONG"
    /\ response.status = 500
    /\ response.code = "AUDIO_TOO_LONG"

\* C16: the cleanup of the registered temp artifacts is complete before the
\* run's outcome can be seen by the caller: when transcribe() has returned or
\* raised, and when the answer is built or delivered, every registered path
\* has been handed to cleanup_file and is gone unless its unlink raised; an
\* outcome exists only from the finally clause on; this is so whatever the
\* outcome is.
C16_CleanupBeforeOutcome ==
    /\ outcome # "none" =>
          pc \in {"cleanup", "done", "cleanup_upload", "responded"}
    /\ (pc \in {"done", "cleanup_upload"} \/ response # NoResponse) =>
          /\ cleanup_calls = temp_files
          /\ \A p \in Range(temp_files) : p \notin disk \/ p \in unlink_failed
    /\ response # NoResponse =>
          pc \in {"cleanup_upload", "responded"}

\* an error path with a converted file and three chunks to clean
C16_Witness ==
    /\ Delivered
    /\ response.code = "TRANSCRIPTION_FAILED"
    /\ Len(temp_files) = 4
    /\ cleanup_calls = temp_files
    /\ \A p \in Range(temp_files) : p \notin disk

\* The extension of the upload's filename is one of the supported formats.
Whitelisted ==
    lstrip_dots(lower(suffix(audio.filename))) \in supported_formats

\* C17: the gate and the converter run only for an upload whose filename
\* passed the whitelist check; an upload whose extension is not supported is
\* rejected and is never saved, measured, converted or recognized.
C17_WhitelistFirst ==
    /\ ~Whitelisted =>
          /\ pc \in {"request", "responded"}
          /\ disk = {}
          /\ saved_path = NoPath
          /\ duration = -1
          /\ conv_tried = <<>>
          /\ split_calls = 0
          /\ rec_calls = <<>>
          /\ pc = "responded" =>
                /\ response.status = 400
                /\ response.code \in {"MISSING_FILENAME", "INVALID_AUDIO_FORMAT"}
    /\ (pc \notin {"request", "responded"} \/ duration # -1
            \/ conv_tried # <<>>) => Whitelisted

\* a name whose last extension is not supported, behind a supported one
C17_Witness ==
    /\ Delivered
    /\ audio.filename = <<"a", ".", "m", "p", "3", ".", "t", "x", "t">>
    /\ response.code = "INVALID_AUDIO_FORMAT"
    /\ disk = {}

----------------------------------------------------------------------------
(* Empty texts, chunk counts.                                              *)

\* C21: an empty text from the engine is no error: a run whose recognition
\* calls all returned, empty or not, succeeds; when every text is empty the
\* result text is empty and, no language being given, the language is "en".
C21_EmptyTextIsNoError ==
    /\ (Done /\ rec_calls # <<>> /\ Len(rec_texts) = Len(rec_calls)) =>
          outcome = "ok"
    /\ (Succeeded /\ \A k \in 1..Len(rec_texts) : rec_texts[k] = <<>>) =>
          /\ result.text = <<>>
          /\ language \in {"None", ""} => result.language = "en"

\* three chunks, three empty texts
C21_Witness ==
    /\ Succeeded
    /\ Len(rec_calls) = 3
    /\ rec_texts = << <<>>, <<>>, <<>> >>
    /\ language = "None"
    /\ result.text = <<>>
    /\ result.language = "en"

\* C26 as stated: in a successful run chunks_processed is the number of
\* recognition calls and is at least 1, at least 2 when the duration is above
\* the chunk size; the result's duration is the gate's.
C26_ChunksProcessedAtLeast ==
    Succeeded =>
        /\ result.chunks_processed = Len(rec_calls)
        /\ result.chunks_processed >= 1
        /\ duration > Ms(chunk_size_seconds) => result.chunks_processed >= 2
        /\ result.duration = duration

\* C26 amended: in a successful run chunks_processed is the number of
\* recognition calls (empty texts counted) and the result's duration is the
\* gate's; on the direct path it is 1; on the chunked path it is the number of
\* chunks the converted file's sample count gives, the sample count divided by
\* the chunk length and rounded up, which is 0 for an empty converted file and
\* at least 2 exactly when the file holds more samples than one chunk.
C26_ChunksProcessed ==
    Succeeded =>
        /\ result.chunks_processed = Len(rec_calls)
        /\ result.chunks_processed = Len(rec_texts)
        /\ result.duration = duration
        /\ duration <= Ms(chunk_size_seconds) => result.chunks_processed = 1
        /\ duration > Ms(chunk_size_seconds) =>
              /\ result.chunks_processed * chunk_size_seconds * sample_rate
                    >= total_samples
              /\ (result.chunks_processed - 1) * chunk_size_seconds * sample_rate
                    < total_samples \/ result.chunks_processed = 0
              /\ result.chunks_processed >= 2
                    <=> total_samples > chunk_size_seconds * sample_rate

\* a chunked run with an empty text among three chunks
C26_Witness ==
    /\ Succeeded
    /\ duration > Ms(chunk_size_seconds)
    /\ result.chunks_processed = 3
    /\ rec_texts[2] = <<>>
    /\ rec_texts[1] # <<>>

\* C23: when the request ends the saved upload is gone from the temp
\* directory, on success and on every failure path, a save_upload that failed
\* after creating the file included. (Stated for the requests in which no
\* unlink failed.)
C23_UploadRemoved ==
    (Delivered /\ unlink_failed = {}) => audio_path \notin disk

\* The run is over with a result and no error, or with an error and no result.
ExactlyOneOutcome ==
    \/ outcome = "ok" /\ result # NoResult /\ error = NoError
    \/ outcome = "error" /\ result = NoResult /\ error.code # ""

\* C22: when every external call returns or raises, the run reaches a
\* terminal state and stays there, and in it there is either a result
\* (Succeeded) or an error with a code (Failed), never both.
C22_Terminates == <>[](Done /\ ExactlyOneOutcome)

\* a chunked run that ends in Failed: the engine raised on the third chunk
C22_Witness ==
    /\ Failed
    /\ ExactlyOneOutcome
    /\ error.code = "TRANSCRIPTION_FAILED"
    /\ Len(rec_calls) = 3
    /\ cleanup_calls = temp_files

----------------------------------------------------------------------------
(* The engine singleton: load_model, unload_model and a run in any order.  *)

MaxEngineCalls == 3     \* load_model and unload_model calls in one behaviour

\* one call of load_model or unload_model: what it found, what it left, and
\* whether it came before the run or after it
EngineCall(op, outcome_, after) ==
    [op |-> op, outcome |-> outcome_, before |-> is_loaded, after |-> after,
     at |-> pc]

\* asr.py:24, 140: the singleton is constructed with no recognizer; no
\* language is given and the engine returns one text, as in SpecEnv
InitEngine == InitEnv /\ ~is_loaded

\* asr.py:37-69: nothing is done when the recognizer exists; otherwise the
\* recognizer is set when from_transducer returns and is left None when
\* validate_model_files or from_transducer raises
load_model ==
    /\ pc \in {"get_duration", "done"}
    /\ Len(engine_log) < MaxEngineCalls
    /\ IF is_loaded
          THEN /\ engine_log' = Append(engine_log,
                                       EngineCall("load_model", "skipped", TRUE))
               /\ UNCHANGED is_loaded
          ELSE \/ /\ is_loaded' = TRUE
                  /\ engine_log' = Append(engine_log,
                                          EngineCall("load_model", "loaded", TRUE))
               \/ /\ UNCHANGED is_loaded
                  /\ engine_log' = Append(engine_log,
                                          EngineCall("load_model", "raised", FALSE))
    /\ UNCHANGED <<pc, language, disk, disk0, duration, temp_files,
                   converted_path, chunks, split_chunks, total_samples, ranges,
                   texts, rec_i, outcome, result, error, conv_tried,
                   split_calls, rec_calls, rec_texts, cleanup_calls,
                   absent_calls, unlink_failed, text_in, lang_out, swept,
                   conv_failed, runs, audio, saved_path, response>>

\* asr.py:135-140
unload_model ==
    /\ pc \in {"get_duration", "done"}
    /\ Len(engine_log) < MaxEngineCalls
    /\ IF is_loaded
          THEN /\ is_loaded' = FALSE
               /\ engine_log' = Append(engine_log,
                                       EngineCall("unload_model", "unloaded", FALSE))
          ELSE /\ UNCHANGED is_loaded
               /\ engine_log' = Append(engine_log,
                                       EngineCall("unload_model", "skipped", FALSE))
    /\ UNCHANGED <<pc, language, disk, disk0, duration, temp_files,
                   converted_path, chunks, split_chunks, total_samples, ranges,
                   texts, rec_i, outcome, result, error, conv_tried,
                   split_calls, rec_calls, rec_texts, cleanup_calls,
                   absent_calls, unlink_failed, text_in, lang_out, swept,
                   conv_failed, runs, audio, saved_path, response>>

NextEngine ==
    \/ load_model
    \/ unload_model
    \/ get_audio_duration
    \/ ValidateDuration
    \/ ConvertPrimary
    \/ ConvertFallback
    \/ RegisterConverted
    \/ SplitLoad
    \/ SplitWriteChunk
    \/ RegisterChunks
    \/ RecognizeChunkEnv
    \/ AssembleChunked
    \/ TranscribeDirectEnv
    \/ cleanup_file
    \/ Return

SpecEngine == InitEngine /\ [][NextEngine]_vars

BeforeRun(call) == call.at = "get_duration"

\* The model was loaded when the run started.
LoadedAtStart ==
    LET calls == SelectSeq(engine_log, BeforeRun)
    IN calls # <<>> /\ calls[Len(calls)].after

\* what the calls made so far say about is_loaded
EngineCallsConsistent ==
    /\ is_loaded = (engine_log # <<>> /\ engine_log[Len(engine_log)].after)
    /\ \A i \in 1..Len(engine_log) :
          LET call == engine_log[i] IN
          /\ call.before = (i > 1 /\ engine_log[i - 1].after)
          /\ call.after = \/ call.op = "load_model" /\ call.outcome = "loaded"
                          \/ call.op = "load_model" /\ call.before
          /\ (call.op = "load_model" /\ call.before) =>
                call.outcome = "skipped" /\ call.after
          /\ (call.op = "unload_model" /\ ~call.before) =>
                call.outcome = "skipped" /\ ~call.after
          /\ call.op = "unload_model" => ~call.after

\* C25: is_loaded is true exactly from a successful load_model to the next
\* unload_model; load_model on a loaded model and unload_model on an unloaded
\* one change nothing; a run started while the model is not loaded returns no
\* result, ends in Failed and leaves none of its temp artifacts behind.
\* (The last part is stated for the runs in which no unlink failed.)
C25_EngineLifecycle ==
    /\ EngineCallsConsistent
    /\ (pc \in {"cleanup", "done"} /\ ~LoadedAtStart) =>
          outcome = "error" /\ result = NoResult
    /\ (Done /\ ~LoadedAtStart /\ unlink_failed = {}) =>
          \A p \in disk : ~IsArtifact(p)

----------------------------------------------------------------------------
(* Two requests served side by side on one temp directory: their files.    *)
(* Here a file is its name, a sequence of characters and of pieces that    *)
(* hold neither a dot nor a slash.                                         *)

RunIds == {1, 2}

MaxSweepFailures == 1   \* unlinks that fail in one cleanup_temp_directory

\* audio_processor.py:78   uuid.uuid4(): two calls give two values
Uuids == <<"uuid-1", "uuid-2">>

\* the filename of the second upload, the first being a.mp3: the same name,
\* or one with no extension
TwoFileNames == { <<"a", ".", "m", "p", "3">>, <<"a">> }

\* audio_processor.py:74-76
upload_ext(filename) ==
    IF lower(suffix(filename)) = <<>>
        THEN <<".", "w", "a", "v">>
        ELSE lower(suffix(filename))

\* Mutation of unique_name: the saved file is named after the upload's filename
unique_name_from_filename(u, filename) ==
    LET n == path_name(filename)
    IN SubSeq(n, 1, Len(n) - Len(suffix(n))) \o upload_ext(filename)

\* audio_processor.py:78-79   f"{uuid.uuid4()}{ext}"
unique_name(u, filename) == <<u>> \o upload_ext(filename)

\* PurePath.stem: the name without its suffix
stem(path) ==
    LET n == path_name(path) IN SubSeq(n, 1, Len(n) - Len(suffix(n)))

\* audio_processor.py:101   input_path.with_suffix(".converted.wav")
converted_name(input_path) == stem(input_path) \o <<".", "converted", ".", "wav">>

\* f"{i:04d}"
Digits4 == <<"0000", "0001", "0002", "0003", "0004", "0005">>

\* audio_processor.py:171   f"{audio_path.stem}_chunk_{i:04d}.wav"
chunk_name(audio_path_, i) ==
    stem(audio_path_) \o <<"_chunk_", Digits4[i + 1], ".", "wav">>

\* what a step on files leaves alone
TwoFrame ==
    UNCHANGED <<pc, language, disk0, duration, temp_files, converted_path,
                chunks, split_chunks, total_samples, ranges, texts, rec_i,
                outcome, result, error, conv_tried, split_calls, rec_calls,
                rec_texts, cleanup_calls, absent_calls, unlink_failed, text_in,
                lang_out, conv_failed, is_loaded, engine_log, audio,
                saved_path, response>>

\* main.py:243 and transcription.py:64-67: a request before anything is saved
NewRun(filename) ==
    [pc |-> "save_upload", filename |-> filename, saved_path |-> <<>>,
     temp_files |-> <<>>, split_chunks |-> <<>>, num_chunks |-> 0,
     cleaned |-> 0, created |-> {}]

InitTwo ==
    /\ pc = "serving"
    /\ language = "None"
    /\ disk = {}
    /\ disk0 = {}
    /\ duration = -1
    /\ temp_files = <<>>
    /\ converted_path = NoPath
    /\ chunks = <<>>
    /\ split_chunks = <<>>
    /\ total_samples = -1
    /\ ranges = <<>>
    /\ texts = <<>>
    /\ rec_i = 0
    /\ outcome = "none"
    /\ result = NoResult
    /\ error = NoError
    /\ conv_tried = <<>>
    /\ split_calls = 0
    /\ rec_calls = <<>>
    /\ rec_texts = <<>>
    /\ cleanup_calls = <<>>
    /\ absent_calls = 0
    /\ unlink_failed = {}
    /\ text_in = <<>>
    /\ lang_out = ""
    /\ swept = FALSE
    /\ conv_failed = <<>>
    /\ is_loaded = TRUE
    /\ audio = DefaultAudio
    /\ saved_path = NoPath
    /\ response = NoResponse
    /\ engine_log = <<>>
    /\ \E f \in TwoFileNames :
          runs = [r \in RunIds |->
                     NewRun(IF r = 1 THEN <<"a", ".", "m", "p", "3">> ELSE f)]

\* main.py:247, audio_processor.py:63-89
TwoSaveUpload(r) ==
    /\ runs[r].pc = "save_upload"
    /\ LET file_path == unique_name(Uuids[r], runs[r].filename) IN
       \/ /\ disk' = disk \cup {file_path}
          /\ runs' = [runs EXCEPT ![r].pc = "convert",
                                  ![r].saved_path = file_path,
                                  ![r].created = @ \cup {file_path}]
       \/ \E partial \in {{}, {file_path}} :
            /\ disk' = disk \cup partial
            /\ runs' = [runs EXCEPT ![r].pc = "responded",
                                    ![r].created = @ \cup partial]
    /\ UNCHANGED swept
    /\ TwoFrame

\* transcription.py:88-94, audio_processor.py:91-136: the conversion and the
\* choice of the path (num_chunks = 0 stands for the direct path)
TwoConvert(r) ==
    /\ runs[r].pc = "convert"
    /\ LET out == converted_name(runs[r].saved_path) IN
       \/ /\ runs[r].saved_path \in disk
          /\ disk' = disk \cup {out}
          /\ \E n \in 0..MaxFullChunks :
                runs' = [runs EXCEPT ![r].pc = IF n = 0 THEN "cleanup" ELSE "split",
                                     ![r].temp_files = <<out>>,
                                     ![r].num_chunks = n,
                                     ![r].created = @ \cup {out}]
       \/ \E partial \in {{}, {out}} :
            /\ disk' = disk \cup partial
            /\ runs' = [runs EXCEPT ![r].pc = "cleanup",
                                    ![r].created = @ \cup partial]
    /\ UNCHANGED swept
    /\ TwoFrame

\* audio_processor.py:165-187: one chunk is written, or the write fails and
\* the chunks written before are unlinked
TwoSplitWrite(r) ==
    /\ runs[r].pc = "split"
    /\ Len(runs[r].split_chunks) < runs[r].num_chunks
    /\ LET c == chunk_name(runs[r].temp_files[1], Len(runs[r].split_chunks)) IN
       \/ /\ disk' = disk \cup {c}
          /\ runs' = [runs EXCEPT ![r].split_chunks = Append(@, c),
                                  ![r].created = @ \cup {c}]
       \/ \E partial \in {{}, {c}} :
            /\ disk' = (disk \cup partial) \ Range(runs[r].split_chunks)
            /\ runs' = [runs EXCEPT ![r].pc = "cleanup",
                                    ![r].created = @ \cup partial]
    /\ UNCHANGED swept
    /\ TwoFrame

\* transcription.py:96-111: split_audio returned, its chunks are registered
\* and recognized
TwoRegisterChunks(r) ==
    /\ runs[r].pc = "split"
    /\ Len(runs[r].split_chunks) = runs[r].num_chunks
    /\ runs' = [runs EXCEPT ![r].pc = "cleanup",
                            ![r].temp_files = @ \o runs[r].split_chunks]
    /\ UNCHANGED <<disk, swept>>
    /\ TwoFrame

\* transcription.py:147-149, audio_processor.py:189-211: the next registered
\* path is unlinked, unless it is absent or the unlink raises
TwoCleanupFile(r) ==
    /\ runs[r].pc = "cleanup"
    /\ runs[r].cleaned < Len(runs[r].temp_files)
    /\ \/ disk' = disk \ {runs[r].temp_files[runs[r].cleaned + 1]}
       \/ disk' = disk
    /\ runs' = [runs EXCEPT ![r].cleaned = @ + 1]
    /\ UNCHANGED swept
    /\ TwoFrame

\* main.py:302-305: the saved upload is unlinked and the request ends
TwoCleanupUpload(r) ==
    /\ runs[r].pc = "cleanup"
    /\ runs[r].cleaned = Len(runs[r].temp_files)
    /\ \/ disk' = disk \ {runs[r].saved_path}
       \/ disk' = disk
    /\ runs' = [runs EXCEPT ![r].pc = "responded"]
    /\ UNCHANGED swept
    /\ TwoFrame

\* main.py:58, 86 and audio_processor.py:214-238: the service process of the
\* second request starts or stops, before or after serving it, and empties
\* the directory
TwoSweep ==
    /\ runs[2].pc \in {"save_upload", "responded"}
    /\ ~swept
    /\ swept' = TRUE
    /\ \E kept \in SUBSET disk :
          /\ Cardinality(kept) <= MaxSweepFailures
          /\ disk' = kept
    /\ UNCHANGED runs
    /\ TwoFrame

NextTwo ==
    \/ \E r \in RunIds : TwoSaveUpload(r)
    \/ \E r \in RunIds : TwoConvert(r)
    \/ \E r \in RunIds : TwoSplitWrite(r)
    \/ \E r \in RunIds : TwoRegisterChunks(r)
    \/ \E r \in RunIds : TwoCleanupFile(r)
    \/ \E r \in RunIds : TwoCleanupUpload(r)
    \/ TwoSweep

SpecTwo == InitTwo /\ [][NextTwo]_vars

\* C24: two runs that overlap on distinct uploads create disjoint sets of
\* files (upload, converted file, chunks); a step of one run never removes
\* nor creates a file of the other; a file of a run disappears in a step that
\* is not the run's own only when cleanup_temp_directory runs.
C24_RunsDisjoint ==
    [][ /\ runs'[1].created \cap runs'[2].created = {}
        /\ \A r \in RunIds :
              runs'[r] # runs[r] =>
                  \A p \in runs[3 - r].created : (p \in disk') = (p \in disk)
        /\ \A r \in RunIds :
              (runs'[r] = runs[r] /\ \E p \in runs[r].created :
                                         p \in disk /\ p \notin disk')
                  => (~swept /\ swept')
      ]_vars

\* both uploads have the same filename; the first request has ended and has
\* removed its files while the second still has its converted file and two
\* chunks on disk
C24_Witness ==
    /\ runs[1].filename = runs[2].filename
    /\ runs[1].pc = "responded"
    /\ Len(runs[1].temp_files) = 3
    /\ runs[1].created \cap disk = {}
    /\ runs[2].pc = "cleanup"
    /\ runs[2].cleaned = 0
    /\ Len(runs[2].temp_files) = 3
    /\ Range(runs[2].temp_files) \subseteq disk
    /\ runs[2].saved_path \in disk
    /\ ~swept

====
